---- MODULE Spec2Model ----
(***************************************************************************)
(* Key Vault challenge authentication policy (ChallengeAuthPolicy) of      *)
(* azure-keyvault-securitydomain, modelled as a state machine.             *)
(*                                                                         *)
(* Strings whose characters the code inspects (URL schemes, network        *)
(* authorities, tenant ids, scopes) are sequences of one-character         *)
(* strings, so that lower(), startswith() and endswith() are computed as   *)
(* the code computes them.  A URL is kept in its urlparse()d form          *)
(* [scheme, netloc, path]; its text is UrlString(u).                       *)
(***************************************************************************)
EXTENDS Integers, Sequences, FiniteSets, TLC

\* Python's None, for a value that is a string, a character sequence, an object
None == "None"

NoneStr == <<"None">>

NoneObj == [none |-> TRUE]

\* ------------------------------------------------------------ strings

UpperLetters == <<"A","B","C","D","E","F","G","H","I","J","K","L","M",
                  "N","O","P","Q","R","S","T","U","V","W","X","Y","Z">>

LowerLetters == <<"a","b","c","d","e","f","g","h","i","j","k","l","m",
                  "n","o","p","q","r","s","t","u","v","w","x","y","z">>

LowerChar(ch) ==
    IF \E i \in 1..26 : UpperLetters[i] = ch
    THEN LowerLetters[CHOOSE i \in 1..26 : UpperLetters[i] = ch]
    ELSE ch

\* str.lower()
Lower(s) == [i \in 1..Len(s) |-> LowerChar(s[i])]

\* str.startswith(p)
StartsWith(s, p) == Len(s) >= Len(p) /\ SubSeq(s, 1, Len(p)) = p

\* str.endswith(p)
EndsWith(s, p) == Len(s) >= Len(p) /\ SubSeq(s, Len(s) - Len(p) + 1, Len(s)) = p

Str_https == <<"h","t","t","p","s">>
Str_Https == <<"H","t","t","p","s">>
Str_http  == <<"h","t","t","p">>
Str_adfs  == <<"a","d","f","s">>
Str_ADFS  == <<"A","D","F","S">>
Str_xadfs == <<"x","a","d","f","s">>
Str_t     == <<"t">>
Str_c     == <<"c">>
Str_default == <<"/",".","d","e","f","a","u","l","t">>

\* network authorities: k.v.n is a vault under the service domain v.n
Host_kvn == <<"k",".","v",".","n">>
Host_Kvn == <<"K",".","v",".","n">>
Host_xvn == <<"x","v",".","n">>
Host_vn  == <<"v",".","n">>
Host_n   == <<"n">>
Host_N   == <<"N">>

Url(scheme, netloc, path) == [scheme |-> scheme, netloc |-> netloc, path |-> path]

\* the empty string, and a string with no "//" authority part
EmptyStr == Url(<< >>, << >>, << >>)

UrlString(u) ==
    IF u.scheme = << >> /\ u.netloc = << >> THEN u.path
    ELSE u.scheme \o <<":","/","/">> \o u.netloc \o u.path

\* str + "/.default"
AppendDefault(u) == [u EXCEPT !.path = @ \o Str_default]

\* urlparse(s).netloc
NetLoc(u) == u.netloc

\* ------------------------------------------------------------ bounds

\* send calls made on the policy in one behaviour
MaxCalls == 2

\* clock advances in one behaviour
MaxTicks == 1

\* seconds the clock advances by in one step
TickSeconds == 301

\* seconds a token issued by the credential stays valid
TokenLifetime == 600

\* the latest time of the clock when _need_new_token is evaluated on its own
MaxNow == 3

\* pollers made for one long-running operation
MaxPollers == 2

\* status requests one poller issues
MaxPolls == 2

\* pages of one listing on the service
MaxListPages == 2

\* items of one page
MaxPageLen == 2

\* page requests one iterator sends to the service
MaxFetches == 3

\* ------------------------------------------------------------ inputs

\* A WWW-Authenticate header value, by what the parser makes of it:
\*   parse = "bare"  a scheme name with no parameters ("Bearer")
\*   parse = "bad"   parameters that are no valid challenge
\*   parse = "ok"    a challenge with these parameters (EmptyStr, NoneStr
\*                   or None: not given)
Header(parse, scope, resource, tenant, claims) ==
    [parse |-> parse, scope |-> scope, resource |-> resource,
     tenant |-> tenant, claims |-> claims]

Res(host) == Url(Str_https, host, << >>)

H_bare   == Header("bare", EmptyStr, EmptyStr, NoneStr, None)
H_bad    == Header("bad", EmptyStr, EmptyStr, NoneStr, None)
\* Key Vault challenges: a resource or a scope, and a tenant, no claims
H_kv     == Header("ok", EmptyStr, Res(Host_vn), Str_t, None)
H_ADFS   == Header("ok", AppendDefault(Res(Host_N)), EmptyStr, Str_ADFS, None)
H_xadfs  == Header("ok", EmptyStr, Res(Host_n), Str_xadfs, None)
\* a Key Vault challenge naming the request's own host, which does not verify
H_same   == Header("ok", EmptyStr, Res(Host_kvn), Str_t, None)
\* CAE claims challenges: claims only, and claims with a resource of its own
H_cae    == Header("ok", EmptyStr, EmptyStr, Str_c, "c1")
H_caeres == Header("ok", EmptyStr, Res(Host_n), Str_c, "c2")

Headers == {H_bare, H_bad, H_kv, H_ADFS, H_xadfs, H_same, H_cae, H_caeres}

\* A response of the next policy: a status and the WWW-Authenticate header
\* (NoneObj: the response has no such header).
Response(status, hdr) == [status |-> status, hdr |-> hdr]

Responses ==
    {Response(200, NoneObj), Response(403, H_kv), Response(401, NoneObj)}
    \cup {Response(401, h) : h \in Headers}

\* what the next policy does with a request: it answers, or it raises
Raise == [status |-> 0, hdr |-> NoneObj]

Outcomes == Responses \cup {Raise}

\* the answers to the last resend, whose headers the policy does not read
LastOutcomes ==
    {Response(200, NoneObj), Response(401, H_bare), Response(401, H_cae), Raise}

Url_kvn  == Url(Str_https, Host_kvn, << >>)
Url_Kvn  == Url(Str_Https, Host_Kvn, << >>)
Url_xvn  == Url(Str_https, Host_xvn, << >>)
Url_http == Url(Str_http, Host_kvn, << >>)

RequestUrls == {Url_kvn, Url_Kvn, Url_xvn, Url_http}

Bodies == {None, "body"}

\* the requests callers make: a URL and a body (None: no content)
Requests ==
    {<<Url_kvn, "body">>, <<Url_kvn, None>>, <<Url_Kvn, "body">>,
     <<Url_xvn, None>>, <<Url_http, "body">>}

\* the http_request of a pipeline request: rid names the caller's request
HttpRequest(rid, url, body, auth, cl0) ==
    [rid |-> rid, url |-> url, body |-> body, auth |-> auth, cl0 |-> cl0]

\* ------------------------------------------------- challenge and cache

\* http_challenge_cache: the key of a URL is its authority, normalised
CacheKey(url) == Lower(NetLoc(url))

CacheKeys == {CacheKey(u) : u \in RequestUrls}

\* HttpChallenge(url, header): raises ValueError unless the header parses
ParseFails(hdr) == hdr.parse # "ok"

HttpChallenge(hdr) ==
    [scope |-> hdr.scope, resource |-> hdr.resource,
     tenant_id |-> hdr.tenant, claims |-> hdr.claims]

\* HttpChallenge.get_scope / get_resource: the parameter, or ""
get_scope(ch) == ch.scope

get_resource(ch) == ch.resource

\* challenge.get_scope() or challenge.get_resource() + "/.default"
ScopeOf(ch) ==
    IF get_scope(ch) # EmptyStr THEN get_scope(ch)
    ELSE AppendDefault(get_resource(ch))

\* a mutant of TlsOk: plain http passes as well
TlsOk_AnyHttp(url) == StartsWith(Lower(UrlString(url)), Str_http)

\* _enforce_tls: TRUE when the request may go on
TlsOk(url) == StartsWith(Lower(UrlString(url)), Str_https)

\* a _has_claims that never raises
HasClaimsRaises_Never(hdr) == FALSE

\* _has_claims raises IndexError on a header with no parameters
HasClaimsRaises(hdr) == hdr.parse = "bare"

_has_claims(hdr) == hdr.claims # None

\* a verification that compares the domains without the dot
VerifyFails_NoDot(scope, url) ==
    \/ NetLoc(scope) = << >>
    \/ ~EndsWith(Lower(NetLoc(url)), Lower(NetLoc(scope)))

\* on_challenge's verification of the scope against the request's domain
VerifyFails(scope, url) ==
    \/ NetLoc(scope) = << >>
    \/ ~EndsWith(Lower(NetLoc(url)), <<".">> \o Lower(NetLoc(scope)))

\* the tenant AD FS authentication leaves out
IsAdfs(tenant) == tenant # NoneStr /\ EndsWith(Lower(tenant), Str_adfs)

\* ------------------------------------------------------------ tokens

\* refresh_on of a token that has none (AccessToken, or refresh_on = None)
NoTime == -1

\* the two shapes of credential: get_token(...) and get_token_info(...)
CredentialKinds == {"get_token", "get_token_info"}

\* a token request as the credential receives it (tenant NoneStr: none given)
TokenRequest(scope, tenant, claims, how) ==
    [scope |-> scope, tenant |-> tenant, claims |-> claims, how |-> how]

\* the token the credential answers a request with at time t
IssueToken(trq, cr, t) ==
    [scope |-> trq.scope, tenant |-> trq.tenant, claims |-> trq.claims,
     expires_on |-> t + cr.lifetime,
     refresh_on |-> IF cr.kind = "get_token_info" /\ cr.refresh > 0
                    THEN t + cr.refresh ELSE NoTime]

\* a mutant of _need_new_token: a token with exactly 300 seconds left is stale
_need_new_token_AtMost300(tok, t) ==
    \/ tok = NoneObj
    \/ (tok.refresh_on # NoTime /\ tok.refresh_on # 0 /\ tok.refresh_on <= t)
    \/ tok.expires_on - t <= 300

\* a mutant of _need_new_token: a token, once held, is never renewed
_need_new_token_OnlyWithout(tok, t) == tok = NoneObj

\* a mutant of _need_new_token: every request renews the token
_need_new_token_Always(tok, t) == TRUE

\* ChallengeAuthPolicy._need_new_token
_need_new_token(tok, t) ==
    \/ tok = NoneObj
    \/ (tok.refresh_on # NoTime /\ tok.refresh_on # 0 /\ tok.refresh_on <= t)
    \/ tok.expires_on - t < 300

\* the tenant on_challenge hands to authorize_request
ChallengeTenant(tenant) == IF IsAdfs(tenant) THEN NoneStr ELSE tenant

\* the tenant _request_kv_token hands to the credential
KvTenant(kind, tenant) ==
    IF kind = "get_token_info"
    THEN IF tenant # NoneStr /\ ~IsAdfs(tenant) THEN tenant ELSE NoneStr
    ELSE IF IsAdfs(tenant) THEN NoneStr ELSE tenant

\* ------------------------------------------------------------- state

Calls == {1, 2}

VARIABLES
    cache,            \* ChallengeCache: authority key -> challenge or NoneObj
    token,            \* self._token
    request_copy,     \* self._request_copy
    verify,           \* self._verify_challenge_resource
    cred,             \* the credential: [kind, lifetime, refresh]
    conc,             \* whether send calls may overlap on the policy
    now,              \* time.time()
    ncalls,           \* send calls started
    pc,               \* per call: idle, wait1, wait2, wait3, done
    given,            \* per call: the request the caller passed to send
    req,              \* per call: request.http_request
    claims_challenge, \* per call: handle_challenge_flow's local of that name
    found,            \* per call: the cached challenge on_request found
    sent,             \* per call: the requests handed to the next policy
    tokreqs,          \* per call: the token requests made of the credential
    resps,            \* per call: what the next policy answered
    result,           \* per call: what send returned or raised
    need_read,        \* what _need_new_token returned when last read (<< >>: unread)
    op,               \* the service's status of the long-running operation
    poller,           \* per poller: NoneObj, or its status and status requests
    tokens,           \* the continuation tokens taken so far
    returned,         \* per poller: what the last call on it returned
    pager,            \* the page iterator: NoneObj, or its cursor fields
    listing,          \* the pages of the listing the service has served
    last_mark,        \* the next marker the service gave with the last of them
    got,              \* the pages the iterator returned to the caller
    fetched,          \* the markers of the page requests sent to the service
    outcome           \* how the last request for a page ended

policyVars == <<cache, token, request_copy>>

configVars == <<verify, cred, conc>>

lroVars == <<op, poller, tokens, returned>>

pageVars == <<pager, listing, last_mark, got, fetched, outcome>>

\* the state the authentication policy does not touch
besides == <<need_read, lroVars, pageVars>>

callVars == <<pc, given, req, claims_challenge, found, sent, tokreqs, resps, result>>

vars == <<cache, token, request_copy, verify, cred, conc, now, ncalls,
          pc, given, req, claims_challenge, found, sent, tokreqs, resps, result>>

Result(kind, resp, err) == [kind |-> kind, resp |-> resp, err |-> err]

NoResult == Result("none", NoneObj, None)

InitPolicy ==
    /\ cache = [k \in CacheKeys |-> NoneObj]
    /\ token = NoneObj
    /\ request_copy = NoneObj
    /\ now = 0
    /\ ncalls = 0
    /\ pc = [c \in Calls |-> "idle"]
    /\ given = [c \in Calls |-> NoneObj]
    /\ req = [c \in Calls |-> NoneObj]
    /\ claims_challenge = [c \in Calls |-> FALSE]
    /\ found = [c \in Calls |-> NoneObj]
    /\ sent = [c \in Calls |-> << >>]
    /\ tokreqs = [c \in Calls |-> << >>]
    /\ resps = [c \in Calls |-> << >>]
    /\ result = [c \in Calls |-> NoResult]

\* no long-running operation has been begun
InitLro ==
    /\ op = "NotStarted"
    /\ poller = [p \in 1..MaxPollers |-> NoneObj]
    /\ tokens = {}
    /\ returned = [p \in 1..MaxPollers |-> "none"]

\* no listing has been started
InitPage ==
    /\ pager = NoneObj
    /\ listing = << >>
    /\ last_mark = None
    /\ got = << >>
    /\ fetched = << >>
    /\ outcome = "none"

Init ==
    /\ InitPolicy
    /\ InitLro
    /\ InitPage
    /\ verify \in BOOLEAN
    /\ cred \in [kind : CredentialKinds, lifetime : {TokenLifetime}, refresh : {0}]
    /\ conc = FALSE
    /\ need_read = << >>

\* ----------------------------------------------------------- actions

\* a mutant of IsChallenge: every client error starts the challenge flow
IsChallenge_AnyClientError(resp) == resp.status >= 400

\* send and handle_challenge_flow: the status that starts the challenge flow
IsChallenge(resp) == resp.status = 401

\* a mutant of ReturnConsecutive: every consecutive challenge is handled
ReturnConsecutive_Never(consecutive, claims) == FALSE

\* handle_challenge_flow: a consecutive challenge without claims is returned
ReturnConsecutive(consecutive, claims) == consecutive /\ ~claims

\* a mutant of TryOnceMore: a claims challenge is followed up as well
TryOnceMore_AfterClaims(resp, consecutive, claims) ==
    IsChallenge(resp) /\ ~consecutive

\* a mutant of TryOnceMore: every 401 to a resend is handled once more
TryOnceMore_Always(resp, consecutive, claims) == IsChallenge(resp)

\* handle_challenge_flow: a 401 to the resend is handled once more, unless
\* this is the nested call or the challenge before it was a claims challenge
TryOnceMore(resp, consecutive, claims) ==
    IsChallenge(resp) /\ ~consecutive /\ ~claims

\* on_request without a cached challenge: a request with content is saved
\* and replaced by a copy without content
SavesCopy(original) == original.body # None

\* a mutant of Probe: the probe carries the token the policy holds
Probe_WithHeldToken(original) ==
    IF SavesCopy(original)
    THEN HttpRequest(original.rid, original.url, None, token, TRUE)
    ELSE [original EXCEPT !.auth = token]

Probe(original) ==
    IF SavesCopy(original)
    THEN HttpRequest(original.rid, original.url, None, original.auth, TRUE)
    ELSE original

\* a mutant of Restored: the request at hand is kept
Restored_Never(copy, current) == current

\* on_challenge: the request copy saved by on_request, if there is one,
\* replaces the request at hand
Restored(copy, current) == IF copy # NoneObj THEN copy ELSE current

InFlight(c) == pc[c] \in {"wait1", "wait2", "wait3"}

\* send returns resp, or raises err, to its caller
Finish(c, res) ==
    /\ pc' = [pc EXCEPT ![c] = "done"]
    /\ result' = [result EXCEPT ![c] = res]

NoHeaderReturn_Raises(c, resp) ==
    /\ Finish(c, Result("error", NoneObj, "KeyError"))
    /\ token' = NoneObj
    /\ UNCHANGED <<cache, request_copy, req, claims_challenge, sent, tokreqs>>

\* handle_challenge_flow on a response without a WWW-Authenticate header:
\* the held token is dropped and the response returned
NoHeaderReturn(c, resp) ==
    /\ Finish(c, Result("response", resp, None))
    /\ token' = NoneObj
    /\ UNCHANGED <<cache, request_copy, req, claims_challenge, sent, tokreqs>>

\* a mutant of UpdatedChallenge: nothing is taken from the cached challenge
UpdatedChallenge_NoCarry(hdr, cached) == HttpChallenge(hdr)

\* on_challenge, up to its verification: the challenge as cached and used.
\* A claims challenge takes the scope and tenant of the challenge cached before.
UpdatedChallenge(hdr, cached) ==
    LET old_scope == IF cached # NoneObj THEN ScopeOf(cached) ELSE EmptyStr
        old_tenant == IF cached # NoneObj THEN cached.tenant_id ELSE NoneStr
        challenge == HttpChallenge(hdr)
    IN  IF challenge.claims # None /\ old_scope # EmptyStr
        THEN [challenge EXCEPT !.scope = old_scope, !.tenant_id = old_tenant]
        ELSE challenge

\* ChallengeAuthPolicy.send, from its start to the first next.send(request):
\* on_request enforces TLS, then authorizes from the cached challenge or
\* turns the request into a bodiless probe.  t is what time.time() returns.
Send(c, url, body, t) ==
    LET rid == ncalls + 1
        original == HttpRequest(rid, url, body, NoneObj, FALSE)
        challenge == cache[CacheKey(url)]
    IN
    /\ pc[c] \in {"idle", "done"}
    /\ ncalls < MaxCalls
    /\ conc \/ (c = 1 /\ \A d \in Calls : ~InFlight(d))
    /\ t >= now /\ t <= MaxTicks * TickSeconds
    /\ now' = t
    /\ ncalls' = rid
    /\ given' = [given EXCEPT ![c] = original]
    /\ resps' = [resps EXCEPT ![c] = << >>]
    /\ claims_challenge' = [claims_challenge EXCEPT ![c] = FALSE]
    /\ found' = [found EXCEPT ![c] = IF TlsOk(url) THEN challenge ELSE NoneObj]
    /\ IF ~TlsOk(url)
       THEN /\ Finish(c, Result("error", NoneObj, "ServiceRequestError"))
            /\ req' = [req EXCEPT ![c] = original]
            /\ sent' = [sent EXCEPT ![c] = << >>]
            /\ tokreqs' = [tokreqs EXCEPT ![c] = << >>]
            /\ UNCHANGED policyVars
       ELSE IF challenge # NoneObj
       THEN LET trq == TokenRequest(ScopeOf(challenge),
                                    KvTenant(cred.kind, challenge.tenant_id),
                                    None, "_request_kv_token")
                need == _need_new_token(token, t)
                tok == IF need THEN IssueToken(trq, cred, t) ELSE token
                authorized == [original EXCEPT !.auth = tok]
            IN  /\ token' = tok
                /\ tokreqs' = [tokreqs EXCEPT ![c] = IF need THEN <<trq>> ELSE << >>]
                /\ req' = [req EXCEPT ![c] = authorized]
                /\ sent' = [sent EXCEPT ![c] = <<authorized>>]
                /\ pc' = [pc EXCEPT ![c] = "wait1"]
                /\ result' = [result EXCEPT ![c] = NoResult]
                /\ UNCHANGED <<cache, request_copy>>
       ELSE LET probe == Probe(original)
            IN  /\ request_copy' = IF SavesCopy(original) THEN original
                                   ELSE request_copy
                /\ req' = [req EXCEPT ![c] = probe]
                /\ sent' = [sent EXCEPT ![c] = <<probe>>]
                /\ tokreqs' = [tokreqs EXCEPT ![c] = << >>]
                /\ pc' = [pc EXCEPT ![c] = "wait1"]
                /\ result' = [result EXCEPT ![c] = NoResult]
                /\ UNCHANGED <<cache, token>>
    /\ UNCHANGED configVars

\* handle_challenge_flow for the 401 response resp, up to its next.send or
\* its return
ChallengeFlow(c, resp, consecutive) ==
    LET hdr == resp.hdr
        url == req[c].url
        key == CacheKey(url)
        challenge == UpdatedChallenge(hdr, cache[key])
        scope == ScopeOf(challenge)
        trq == TokenRequest(scope, ChallengeTenant(challenge.tenant_id),
                            challenge.claims, "authorize_request")
        tok == IssueToken(trq, cred, now)
        restored == Restored(request_copy, req[c])
        authorized == [restored EXCEPT !.auth = tok]
    IN
    IF hdr = NoneObj
    THEN NoHeaderReturn(c, resp)
    ELSE IF HasClaimsRaises(hdr)
    THEN /\ Finish(c, Result("error", NoneObj, "IndexError"))
         /\ token' = NoneObj
         /\ UNCHANGED <<cache, request_copy, req, claims_challenge, sent, tokreqs>>
    ELSE IF ReturnConsecutive(consecutive, _has_claims(hdr)) \/ ParseFails(hdr)
    THEN /\ Finish(c, Result("response", resp, None))
         /\ token' = NoneObj
         /\ UNCHANGED <<cache, request_copy, req, sent, tokreqs>>
         /\ claims_challenge' = [claims_challenge EXCEPT ![c] = _has_claims(hdr)]
    ELSE IF verify /\ VerifyFails(scope, url)
    THEN /\ Finish(c, Result("error", NoneObj, "ValueError"))
         /\ token' = NoneObj
         /\ cache' = [cache EXCEPT ![key] = challenge]
         /\ UNCHANGED <<request_copy, req, sent, tokreqs>>
         /\ claims_challenge' = [claims_challenge EXCEPT ![c] = _has_claims(hdr)]
    ELSE /\ cache' = [cache EXCEPT ![key] = challenge]
         /\ token' = tok
         /\ request_copy' = IF request_copy # NoneObj THEN authorized ELSE request_copy
         /\ req' = [req EXCEPT ![c] = authorized]
         /\ sent' = [sent EXCEPT ![c] = Append(@, authorized)]
         /\ tokreqs' = [tokreqs EXCEPT ![c] = Append(@, trq)]
         /\ claims_challenge' = [claims_challenge EXCEPT ![c] = _has_claims(hdr)]
         /\ pc' = [pc EXCEPT ![c] = IF consecutive THEN "wait3" ELSE "wait2"]
         /\ UNCHANGED result

\* a mutant of Propagates: an exception of the next policy is swallowed
Propagates_Never(out) == FALSE

\* send and handle_challenge_flow around next.send: "except Exception:
\* self.on_exception(request); raise" hands the exception to the caller
Propagates(out) == out = Raise

\* the next policy answers (or fails) the first next.send of send
Respond1(c, out) ==
    /\ pc[c] = "wait1"
    /\ resps' = [resps EXCEPT ![c] = Append(@, out)]
    /\ IF Propagates(out)
       THEN /\ Finish(c, Result("error", NoneObj, "TransportError"))
            /\ UNCHANGED <<policyVars, req, claims_challenge, sent, tokreqs>>
       ELSE IF IsChallenge(out)
       THEN ChallengeFlow(c, out, FALSE)
       ELSE /\ Finish(c, Result("response", out, None))
            /\ UNCHANGED <<policyVars, req, claims_challenge, sent, tokreqs>>
    /\ UNCHANGED <<configVars, now, ncalls, given, found>>

\* the next policy answers the resend of handle_challenge_flow
Respond2(c, out) ==
    /\ pc[c] = "wait2"
    /\ resps' = [resps EXCEPT ![c] = Append(@, out)]
    /\ IF Propagates(out)
       THEN /\ Finish(c, Result("error", NoneObj, "TransportError"))
            /\ UNCHANGED <<policyVars, req, claims_challenge, sent, tokreqs>>
       ELSE IF TryOnceMore(out, FALSE, claims_challenge[c])
       THEN ChallengeFlow(c, out, TRUE)
       ELSE /\ Finish(c, Result("response", out, None))
            /\ UNCHANGED <<policyVars, req, claims_challenge, sent, tokreqs>>
    /\ UNCHANGED <<configVars, now, ncalls, given, found>>

\* the next policy answers the resend of the nested handle_challenge_flow
\* (consecutive_challenge = True): whatever it is, it is returned
Respond3(c, out) ==
    /\ pc[c] = "wait3"
    /\ resps' = [resps EXCEPT ![c] = Append(@, out)]
    /\ IF Propagates(out)
       THEN /\ Finish(c, Result("error", NoneObj, "TransportError"))
            /\ UNCHANGED <<policyVars, req, claims_challenge, sent, tokreqs>>
       ELSE IF TryOnceMore(out, TRUE, claims_challenge[c])
       THEN ChallengeFlow(c, out, TRUE)
       ELSE /\ Finish(c, Result("response", out, None))
            /\ UNCHANGED <<policyVars, req, claims_challenge, sent, tokreqs>>
    /\ UNCHANGED <<configVars, now, ncalls, given, found>>

\* the values time.time() may return: the clock never runs backwards
Times == {k * TickSeconds : k \in 0..MaxTicks}

Next ==
    \/ \E c \in Calls, r \in Requests, t \in Times :
          Send(c, r[1], r[2], t) /\ UNCHANGED besides
    \/ \E c \in Calls, out \in Outcomes : Respond1(c, out) /\ UNCHANGED besides
    \/ \E c \in Calls, out \in Outcomes : Respond2(c, out) /\ UNCHANGED besides
    \/ \E c \in Calls, out \in LastOutcomes : Respond3(c, out) /\ UNCHANGED besides

Spec == Init /\ [][Next]_vars

\* the next policy answers every request it is handed, or raises: a send
\* call that waits for it is eventually answered
Answered(c) ==
    \/ \E out \in Outcomes : Respond1(c, out) /\ UNCHANGED besides
    \/ \E out \in Outcomes : Respond2(c, out) /\ UNCHANGED besides
    \/ \E out \in LastOutcomes : Respond3(c, out) /\ UNCHANGED besides

FairSpec == Spec /\ \A c \in Calls : WF_vars(Answered(c))

\* ------------------------------------------------ overlapping calls

\* The policy takes no lock: send calls made from several threads on one
\* policy overlap, each running from one next.send to the next while the
\* others wait for their answers.

\* the requests and the answers of the overlapping calls
ConcRequests == {<<Url_kvn, "body">>, <<Url_kvn, None>>, <<Url_xvn, "body">>}

ConcOutcomes ==
    {Response(200, NoneObj), Response(401, H_kv), Response(401, H_cae), Raise}

ConcInit ==
    /\ InitPolicy
    /\ verify \in BOOLEAN
    /\ cred \in [kind : CredentialKinds, lifetime : {TokenLifetime}, refresh : {0}]
    /\ conc = TRUE
    /\ need_read = << >>
    /\ InitLro
    /\ InitPage

ConcNext ==
    \/ \E c \in Calls, r \in ConcRequests :
          Send(c, r[1], r[2], now) /\ UNCHANGED besides
    \/ \E c \in Calls, out \in ConcOutcomes : Respond1(c, out) /\ UNCHANGED besides
    \/ \E c \in Calls, out \in ConcOutcomes : Respond2(c, out) /\ UNCHANGED besides
    \/ \E c \in Calls, out \in ConcOutcomes : Respond3(c, out) /\ UNCHANGED besides

ConcSpec == ConcInit /\ [][ConcNext]_vars

\* ------------------------------------------- a cache other policies fill

\* http_challenge_cache is a module of the process: the policies of all
\* clients read and write it.  What it may hold when this policy is made:
\* nothing, or a challenge another policy has cached for https://xv.n.
OtherCached ==
    { [k \in CacheKeys |-> NoneObj],
      [k \in CacheKeys |->
          IF k = CacheKey(Url_xvn) THEN HttpChallenge(H_xadfs) ELSE NoneObj] }

SharedCacheInit ==
    /\ cache \in OtherCached
    /\ token = NoneObj
    /\ request_copy = NoneObj
    /\ now = 0
    /\ ncalls = 0
    /\ pc = [c \in Calls |-> "idle"]
    /\ given = [c \in Calls |-> NoneObj]
    /\ req = [c \in Calls |-> NoneObj]
    /\ claims_challenge = [c \in Calls |-> FALSE]
    /\ found = [c \in Calls |-> NoneObj]
    /\ sent = [c \in Calls |-> << >>]
    /\ tokreqs = [c \in Calls |-> << >>]
    /\ resps = [c \in Calls |-> << >>]
    /\ result = [c \in Calls |-> NoResult]
    /\ verify \in BOOLEAN
    /\ cred \in [kind : CredentialKinds, lifetime : {TokenLifetime}, refresh : {0}]
    /\ conc = FALSE
    /\ need_read = << >>
    /\ InitLro
    /\ InitPage

SharedCacheSpec == SharedCacheInit /\ [][Next]_vars

\* ------------------------------------------- the refresh predicate alone

\* the tokens a credential may hand out, by the two times _need_new_token
\* reads: an expiry some seconds less or more than 300 after the times of
\* the clock, and a refresh time (NoTime: none; a time of the clock, or one
\* past the last)
HeldTokens ==
    [scope : {EmptyStr}, tenant : {NoneStr}, claims : {None},
     expires_on : 298..(303 + MaxNow),
     refresh_on : {NoTime} \cup 1..(MaxNow + 1)]

\* self._token = credential.get_token(...) / get_token_info(...)
HoldToken(tok) ==
    /\ token' = tok
    /\ need_read' = << >>
    /\ UNCHANGED <<cache, request_copy, configVars, now, ncalls, callVars, lroVars, pageVars>>

\* time passes
Tick(t) ==
    /\ t > now
    /\ now' = t
    /\ need_read' = << >>
    /\ UNCHANGED <<policyVars, configVars, ncalls, callVars, lroVars, pageVars>>

\* self._need_new_token is read
ReadNeedNewToken ==
    /\ need_read' = <<_need_new_token(token, now)>>
    /\ UNCHANGED <<vars, lroVars, pageVars>>

RefreshNext ==
    \/ \E tok \in HeldTokens : HoldToken(tok)
    \/ \E t \in 1..MaxNow : Tick(t)
    \/ ReadNeedNewToken

RefreshSpec == Init /\ [][RefreshNext]_<<vars, besides>>

\* ------------------------------------------- long-running operations

\* The poller of a long-running operation (begin_backup): the operation on
\* the service, the pollers made for it and the continuation tokens taken.
\* The statuses are NotStarted, Running (the service's "InProgress"),
\* Succeeded, Failed, Canceled.

Terminal == {"Succeeded", "Failed", "Canceled"}

\* the order of the statuses: NotStarted, then Running, then a terminal one
Rank(status) ==
    IF status = "NotStarted" THEN 0 ELSE IF status = "Running" THEN 1 ELSE 2

Pollers == 1..MaxPollers

\* a poller: its status, the status of the response (or token) it was made
\* from, and the status requests made for it
Poller(status, initial, requests) ==
    [status |-> status, initial |-> initial, requests |-> requests]

\* poller.continuation_token(): the state of the poller, serialized
ContinuationToken(status) == [status |-> status]

\* poller.polling_method().finished()
finished(status) == status \in Terminal

\* a mutant of AfterPoll: a poll leaves the poller Running
AfterPoll_Running(status, reported) == "Running"

AfterPoll_Succeeded(status, reported) == "Succeeded"

\* the status of a poller after a poll the service answered with reported
AfterPoll(status, reported) == IF finished(status) THEN status ELSE reported

\* a mutant of Rehydrated: the poller is what the token says, nothing is asked
Rehydrated_FromToken(tok, reported) == Poller(tok.status, tok.status, 0)

\* begin_backup(..., continuation_token=token): a token of a finished
\* operation gives a finished poller; otherwise the service is asked for the
\* status of the operation
Rehydrated(tok, reported) ==
    IF finished(tok.status) THEN Poller(tok.status, tok.status, 0)
    ELSE Poller(reported, tok.status, 1)

\* what the calls on a poller leave alone
LroFrame == UNCHANGED <<vars, need_read, pageVars>>

\* client.begin_backup(container_uri, sas_token): the service accepts the
\* operation and answers with its status, first
begin_backup(p, first) ==
    /\ op = "NotStarted"
    /\ poller[p] = NoneObj
    /\ op' = first
    /\ poller' = [poller EXCEPT ![p] = Poller("NotStarted", first, 0)]
    /\ returned' = [returned EXCEPT ![p] = "none"]
    /\ UNCHANGED tokens
    /\ LroFrame

\* the poller starts from the initial response
Start(p) ==
    /\ poller[p] # NoneObj
    /\ poller[p].status = "NotStarted"
    /\ poller' = [poller EXCEPT ![p].status = poller[p].initial]
    /\ UNCHANGED <<op, tokens, returned>>
    /\ LroFrame

\* the operation ends on the service
OperationEnds(status) ==
    /\ op = "Running"
    /\ op' = status
    /\ UNCHANGED <<poller, tokens, returned>>
    /\ LroFrame

\* token = poller.continuation_token()
continuation_token(p) ==
    /\ poller[p] # NoneObj
    /\ poller[p].status # "NotStarted"
    /\ tokens' = tokens \cup {ContinuationToken(poller[p].status)}
    /\ returned' = [returned EXCEPT ![p] = "token"]
    /\ UNCHANGED <<op, poller>>
    /\ LroFrame

\* client.begin_backup(container_uri, sas_token, continuation_token=token)
Rehydrate(p, tok) ==
    /\ poller[p] = NoneObj
    /\ poller' = [poller EXCEPT ![p] = Rehydrated(tok, op)]
    /\ returned' = [returned EXCEPT ![p] = "none"]
    /\ UNCHANGED <<op, tokens>>
    /\ LroFrame

\* poller.status()
poller_status(p) ==
    /\ poller[p] # NoneObj
    /\ returned' = [returned EXCEPT ![p] = poller[p].status]
    /\ UNCHANGED <<op, poller, tokens>>
    /\ LroFrame

\* one poll of a started poller: a finished poller asks nothing
Polled(p) ==
    [poller[p] EXCEPT
        !.status = AfterPoll(@, op),
        !.requests = IF finished(poller[p].status) THEN @ ELSE @ + 1]

\* poller.wait(): polls, and returns when the poller is finished or the
\* time is up
poller_wait(p) ==
    /\ poller[p] # NoneObj
    /\ poller[p].status # "NotStarted"
    /\ finished(poller[p].status) \/ poller[p].requests < MaxPolls
    /\ poller' = [poller EXCEPT ![p] = Polled(p)]
    /\ returned' = [returned EXCEPT ![p] =
                       IF finished(Polled(p).status) THEN "waited" ELSE "timeout"]
    /\ UNCHANGED <<op, tokens>>
    /\ LroFrame

\* poller.result(): as wait, then the outcome of the operation
poller_result(p) ==
    /\ poller[p] # NoneObj
    /\ poller[p].status # "NotStarted"
    /\ finished(poller[p].status) \/ poller[p].requests < MaxPolls
    /\ poller' = [poller EXCEPT ![p] = Polled(p)]
    /\ returned' = [returned EXCEPT ![p] =
                       IF Polled(p).status = "Succeeded" THEN "result"
                       ELSE IF finished(Polled(p).status) THEN "error"
                       ELSE "timeout"]
    /\ UNCHANGED <<op, tokens>>
    /\ LroFrame

LroNext ==
    \/ \E p \in Pollers, first \in {"Running"} \cup Terminal : begin_backup(p, first)
    \/ \E p \in Pollers : Start(p)
    \/ \E st \in Terminal : OperationEnds(st)
    \/ \E p \in Pollers : continuation_token(p)
    \/ \E p \in Pollers, tok \in tokens : Rehydrate(p, tok)
    \/ \E p \in Pollers : poller_status(p)
    \/ \E p \in Pollers : poller_wait(p)
    \/ \E p \in Pollers : poller_result(p)

LroSpec == Init /\ [][LroNext]_<<vars, besides>>

\* ------------------------------------------------------- paged listings

\* A page iterator over a listing of the service: PathPropertiesPaged and
\* DeletedPathPropertiesPaged (their two callbacks), and the iterator
\* TransfersOperations.list returns (get_next, extract_data). The service
\* gives a page of items and the marker of the next page; the marker after
\* the last page is null (None) or the empty string.

PathsPaged == "PathPropertiesPaged"

DeletedPaged == "DeletedPathPropertiesPaged"

TransfersPaged == "TransfersOperations.list"

PagedKinds == {PathsPaged, DeletedPaged, TransfersPaged}

\* the kinds of the items a listing of the service holds
ItemKinds(kind) ==
    IF kind = PathsPaged THEN {"Path"}
    ELSE IF kind = DeletedPaged THEN {"BlobPrefix", "BlobItemInternal"}
    ELSE {"TransferDetails"}

\* the marker the service gives with its page i for the page after it
MarkerOf(i) == <<"m1", "m2", "m3", "m4">>[i]

\* the page the service gives for a marker: the first for none
PageAt(marker) ==
    IF marker = None THEN 1
    ELSE 1 + (CHOOSE i \in 1..4 : MarkerOf(i) = marker)

\* the marker after the service's page i, of the pages it has served
MarkAfter(i) == IF i < Len(listing) THEN MarkerOf(i) ELSE last_mark

\* the pages the service may serve after n items: items named n+1, n+2, ...
\* of the kinds of the listing
NewPages(kind, n) ==
    { [i \in 1..Len(f) |-> [name |-> n + i, kind |-> f[i]]] :
        f \in UNION { [1..len -> ItemKinds(kind)] : len \in 0..MaxPageLen } }

RECURSIVE Concat(_)
Concat(pages) ==
    IF pages = << >> THEN << >> ELSE Head(pages) \o Concat(Tail(pages))

\* continuation_token=continuation_token or "" ; TransfersOperations.list
\* starts its iterator with no token
InitToken(kind, continuation) ==
    IF kind = TransfersPaged THEN None
    ELSE IF continuation = None THEN "" ELSE continuation

\* marker=continuation_token or None, continuation=continuation_token or
\* None, "if not next_link"
RequestMarker(continuation) == IF continuation = "" THEN None ELSE continuation

NextToken_Same(next) == next

\* next_marker or None, self._response['continuation'] or None,
\* deserialized.next_link or None
NextToken(next) == IF next = "" THEN None ELSE next

\* _build_item
_build_item(item) ==
    IF item.kind = "Path" THEN [type |-> "PathProperties", name |-> item.name]
    ELSE IF item.kind = "BlobItemInternal"
        THEN [type |-> "DeletedPathProperties", name |-> item.name]
    ELSE IF item.kind = "BlobPrefix"
        THEN [type |-> "DirectoryPrefix", name |-> item.name]
    ELSE [type |-> item.kind, name |-> item.name]

BuildItems(items) == [i \in 1..Len(items) |-> _build_item(items[i])]

IsBlobPrefix(item) == item.kind = "BlobPrefix"

IsBlobItem(item) == item.kind = "BlobItemInternal"

\* the segment of a response of the deleted paths listing: the prefixes and
\* the blobs of the page, each list in the order of the page
Segment(page) ==
    [blob_prefixes |-> SelectSeq(page, IsBlobPrefix),
     blob_items |-> SelectSeq(page, IsBlobItem)]

CurrentPage_ItemsOnly(kind, page) ==
    IF kind = DeletedPaged THEN BuildItems(Segment(page).blob_items)
    ELSE BuildItems(page)

\* self.current_page after _extract_data_cb; list_of_elem of extract_data
CurrentPage(kind, page) ==
    IF kind = DeletedPaged
        THEN BuildItems(Segment(page).blob_prefixes \o Segment(page).blob_items)
    ELSE BuildItems(page)

\* the iterator has fetched a page that came with no next marker
Exhausted(pg) == pg.continuation_token = None /\ pg.did_a_call_already

AfterFailure_Reset(pg) ==
    [pg EXCEPT !.continuation_token = None, !.current_page = << >>]

\* the cursor after a page request that raised: nothing was assigned
AfterFailure(pg) == pg

\* the cursor after a page was fetched and _extract_data_cb has run
AfterPage(pg, page, mark) ==
    [pg EXCEPT !.continuation_token = NextToken(mark),
               !.did_a_call_already = TRUE,
               !.current_page = <<CurrentPage(pg.kind, page)>>]

PageFrame == UNCHANGED <<vars, need_read, lroVars>>

\* PathPropertiesPaged(command, ...), DeletedPathPropertiesPaged(command,
\* ...), ItemPaged(get_next, extract_data): current_page (None) is the empty
\* sequence, a page is a sequence of one
NewPaged(kind, continuation) ==
    /\ pager = NoneObj
    /\ pager' = [kind |-> kind,
                 continuation_token |-> InitToken(kind, continuation),
                 did_a_call_already |-> FALSE,
                 current_page |-> << >>]
    /\ UNCHANGED <<listing, last_mark, got, fetched, outcome>>
    /\ PageFrame

\* the next page is asked for of an exhausted iterator: the end, no request
NextPageEnds ==
    /\ pager # NoneObj
    /\ Exhausted(pager)
    /\ outcome' = "stop"
    /\ UNCHANGED <<pager, listing, last_mark, got, fetched>>
    /\ PageFrame

\* the next page is asked for and the request fails: _get_next_cb raises
\* (process_storage_error), get_next raises HttpResponseError
NextPageFails ==
    /\ pager # NoneObj
    /\ ~Exhausted(pager)
    /\ Len(fetched) < MaxFetches
    /\ fetched' = Append(fetched, RequestMarker(pager.continuation_token))
    /\ pager' = AfterFailure(pager)
    /\ outcome' = "error"
    /\ UNCHANGED <<listing, last_mark, got>>
    /\ PageFrame

\* the next page is asked for and the service gives page with the marker
\* mark: a page it has served before, or the one after the pages served
NextPageFetched(page, mark) ==
    /\ pager # NoneObj
    /\ ~Exhausted(pager)
    /\ Len(fetched) < MaxFetches
    /\ LET marker == RequestMarker(pager.continuation_token)
           i == PageAt(marker)
       IN  /\ IF i <= Len(listing)
                 THEN /\ page = listing[i]
                      /\ mark = MarkAfter(i)
                      /\ UNCHANGED <<listing, last_mark>>
                 ELSE /\ i = Len(listing) + 1
                      /\ i <= MaxListPages
                      /\ i = MaxListPages => mark \in {None, ""}
                      /\ mark \in {None, "", MarkerOf(i)}
                      /\ listing' = Append(listing, page)
                      /\ last_mark' = mark
           /\ fetched' = Append(fetched, marker)
           /\ pager' = AfterPage(pager, page, mark)
           /\ got' = Append(got, CurrentPage(pager.kind, page))
           /\ outcome' = "page"
    /\ PageFrame

PageNext ==
    \/ \E kind \in PagedKinds, continuation \in {None, ""} :
          NewPaged(kind, continuation)
    \/ NextPageEnds
    \/ NextPageFails
    \/ \E page \in (IF pager = NoneObj THEN {}
                     ELSE NewPages(pager.kind, Len(Concat(listing)))
                          \cup {listing[i] : i \in 1..Len(listing)}),
          mark \in {None, "", MarkerOf(1), MarkerOf(2), MarkerOf(3)} :
          NextPageFetched(page, mark)

PageSpec == Init /\ [][PageNext]_<<vars, besides>>

\* ------------------------------------------------------------ claims

\* a 401 whose WWW-Authenticate header parses and has (has no) claims
IsClaims401(r) ==
    r.status = 401 /\ r.hdr # NoneObj /\ r.hdr.parse = "ok" /\ r.hdr.claims # None

IsPlain401(r) ==
    r.status = 401 /\ r.hdr # NoneObj /\ r.hdr.parse = "ok" /\ r.hdr.claims = None

\* a 401 claims challenge that names no scope and no resource
IsClaimsOnly401(r) ==
    IsClaims401(r) /\ r.hdr.scope = EmptyStr /\ r.hdr.resource = EmptyStr

\* call c is at a point where on_challenge handles a 401: after the first
\* send, or after the resend that followed a challenge without claims
HandlesChallenge(c) ==
    pc[c] = "wait1" \/ (pc[c] = "wait2" /\ ~claims_challenge[c])

\* the authority of scope is a dot-boundary suffix of the authority of url
DotSuffix(scope, url) ==
    /\ scope.netloc # << >>
    /\ EndsWith(Lower(url.netloc), <<".">> \o Lower(scope.netloc))

\* the token requests on_challenge made through authorize_request
Reauths(c) ==
    Cardinality({i \in 1..Len(tokreqs[c]) : tokreqs[c][i].how = "authorize_request"})

\* C1: a send call whose URL does not start with https (in any letter case)
\* ends at once with an error: the challenge cache is not consulted, no token
\* is requested, nothing is handed to the next policy, and the held token and
\* the challenge cache are as they were.
C1_NonTlsFailsFirst ==
    [][\A c \in Calls :
         ( /\ ncalls' = ncalls + 1
           /\ req'[c] # NoneObj
           /\ req'[c].rid = ncalls'
           /\ ~StartsWith(Lower(UrlString(req'[c].url)), Str_https) )
         => /\ pc'[c] = "done"
            /\ result'[c] = Result("error", NoneObj, "ServiceRequestError")
            /\ sent'[c] = << >>
            /\ tokreqs'[c] = << >>
            /\ found'[c] = NoneObj
            /\ token' = token
            /\ cache' = cache]_vars

\* a plain-http call has failed while the policy holds a token and a
\* challenge is cached for that authority
C1_Witness ==
    \E c \in Calls :
        /\ pc[c] = "done"
        /\ result[c].err = "ServiceRequestError"
        /\ token # NoneObj
        /\ cache[CacheKey(req[c].url)] # NoneObj

\* C2: a response with a status other than 401 ends the send call: it is the
\* response returned, and no request follows it (one request in all when it
\* is the first response).
C2_NoResendOnNon401 ==
    \A c \in Calls : \A i \in 1..Len(resps[c]) :
        (resps[c][i] # Raise /\ resps[c][i].status # 401)
        => /\ i = Len(resps[c])
           /\ Len(sent[c]) = i
           /\ pc[c] = "done"
           /\ result[c] = Result("response", resps[c][i], None)

\* a 403 that carries a challenge header was the first response and was
\* returned after one request
C2_Witness ==
    \E c \in Calls :
        /\ pc[c] = "done"
        /\ resps[c] = <<Response(403, H_kv)>>
        /\ Len(sent[c]) = 1
        /\ result[c].kind = "response"

\* C3: with no challenge cached for the authority, a 401 challenge without
\* claims followed by 200 makes two requests, the first without an
\* Authorization header and the second with the token of the one token
\* request made, and the 200 is returned.
C3_DiscoveryThenOk ==
    \A c \in Calls :
        ( /\ Len(resps[c]) = 2
          /\ found[c] = NoneObj
          /\ resps[c][1].status = 401
          /\ resps[c][1].hdr # NoneObj
          /\ resps[c][1].hdr.claims = None
          /\ resps[c][2].status = 200 )
        => /\ pc[c] = "done"
           /\ Len(sent[c]) = 2
           /\ sent[c][1].auth = NoneObj
           /\ sent[c][2].auth # NoneObj
           /\ Len(tokreqs[c]) = 1
           /\ sent[c][2].auth.scope = tokreqs[c][1].scope
           /\ result[c] = Result("response", resps[c][2], None)

\* the discovery of a request with a body: probe, challenge, authorized resend
C3_Witness ==
    \E c \in Calls :
        /\ found[c] = NoneObj
        /\ Len(resps[c]) = 2
        /\ resps[c][1] = Response(401, H_kv)
        /\ resps[c][2].status = 200
        /\ sent[c][1].body = None
        /\ sent[c][2].body = "body"
        /\ pc[c] = "done"

\* C4 as stated: a send call that got nothing but 401 claims challenges and
\* returned a response has re-authenticated twice, sent three requests and
\* returned the third 401.
C4_Original ==
    \A c \in Calls :
        ( /\ pc[c] = "done"
          /\ result[c].kind = "response"
          /\ resps[c] # << >>
          /\ \A i \in 1..Len(resps[c]) : IsClaims401(resps[c][i]) )
        => /\ Len(sent[c]) = 3
           /\ Reauths(c) = 2
           /\ result[c].resp = resps[c][3]

\* C4, amended: when the first 401 of a send call carries a claims challenge,
\* the policy re-authenticates at most once and sends at most two requests;
\* whatever answers the second request, a second 401 claims challenge
\* included, is returned as it is.
C4_ClaimsFirstBoundsAtTwo ==
    \A c \in Calls :
        (Len(resps[c]) >= 1 /\ IsClaims401(resps[c][1]))
        => /\ Len(sent[c]) <= 2
           /\ Len(resps[c]) <= 2
           /\ Reauths(c) <= 1
           /\ Len(resps[c]) = 2
              => /\ pc[c] = "done"
                 /\ Len(sent[c]) = 2
                 /\ Reauths(c) = 1
                 /\ resps[c][2] # Raise
                    => result[c] = Result("response", resps[c][2], None)

\* two 401 claims challenges in a row: the second one was returned
C4_Witness ==
    \E c \in Calls :
        /\ pc[c] = "done"
        /\ Len(resps[c]) = 2
        /\ IsClaims401(resps[c][1])
        /\ IsClaims401(resps[c][2])
        /\ result[c] = Result("response", resps[c][2], None)

\* C5: when a first 401 without claims was answered by a token and a resend,
\* and the resend is answered by a 401 claims challenge, a token is requested
\* with those claims and the request is sent a third time; the third answer,
\* whatever it is, is returned and no fourth request is sent.
C5_ClaimsAfterDiscovery ==
    \A c \in Calls :
        ( /\ Len(resps[c]) >= 2
          /\ IsPlain401(resps[c][1])
          /\ IsClaims401(resps[c][2]) )
        => /\ Len(sent[c]) = 3
           /\ Reauths(c) = 2
           /\ tokreqs[c][Len(tokreqs[c])].claims = resps[c][2].hdr.claims
           /\ sent[c][3].auth.claims = resps[c][2].hdr.claims
           /\ Len(resps[c]) <= 3
           /\ Len(resps[c]) = 3
              => /\ pc[c] = "done"
                 /\ resps[c][3] # Raise
                    => result[c] = Result("response", resps[c][3], None)

\* the third answer was a third 401 and was returned
C5_Witness ==
    \E c \in Calls :
        /\ pc[c] = "done"
        /\ Len(resps[c]) = 3
        /\ IsPlain401(resps[c][1])
        /\ IsClaims401(resps[c][2])
        /\ resps[c][3].status = 401
        /\ result[c] = Result("response", resps[c][3], None)

\* C6: when the resend after a first challenge is answered by a 401 whose
\* challenge header has parameters and no claims, that 401 is returned at
\* once: no token is requested, the cache is not written, nothing is sent.
C6_NonClaimsSecondReturned ==
    [][\A c \in Calls :
         ( /\ pc[c] = "wait2"
           /\ Len(resps'[c]) = 2
           /\ resps'[c][2].status = 401
           /\ resps'[c][2].hdr # NoneObj
           /\ resps'[c][2].hdr.parse # "bare"
           /\ resps'[c][2].hdr.claims = None )
         => /\ pc'[c] = "done"
            /\ result'[c] = Result("response", resps'[c][2], None)
            /\ tokreqs' = tokreqs
            /\ sent' = sent
            /\ cache' = cache]_vars

\* a second Key Vault challenge after a first one was returned, and the
\* cache still holds the first
C6_Witness ==
    \E c \in Calls :
        /\ pc[c] = "done"
        /\ resps[c] = <<Response(401, H_kv), Response(401, H_xadfs)>>
        /\ result[c] = Result("response", resps[c][2], None)
        /\ Len(sent[c]) = 2
        /\ cache[CacheKey(sent[c][1].url)] = HttpChallenge(H_kv)

ChallengeScope(c, hdr) ==
    ScopeOf(UpdatedChallenge(hdr, cache[CacheKey(req[c].url)]))

\* call c receives a 401 whose challenge on_challenge parses
ChallengeParsed(c) ==
    LET r == resps'[c][Len(resps'[c])]
    IN  /\ HandlesChallenge(c)
        /\ Len(resps'[c]) = Len(resps[c]) + 1
        /\ r.status = 401
        /\ r.hdr # NoneObj
        /\ r.hdr.parse = "ok"
        /\ (pc[c] = "wait2" => r.hdr.claims # None)

\* C8: when on_challenge handles a challenge whose scope has no authority or
\* an authority that is not a dot-boundary suffix of the request's, then with
\* verification on the call fails with an error, no token is requested and
\* nothing is resent; with verification off a token is requested for that
\* scope and the request is resent with it.
C8_ResourceVerification ==
    [][\A c \in Calls :
         LET r == resps'[c][Len(resps'[c])]
             scope == ChallengeScope(c, r.hdr)
             trq == tokreqs'[c][Len(tokreqs'[c])]
             last == sent'[c][Len(sent'[c])]
         IN  (ChallengeParsed(c) /\ ~DotSuffix(scope, req[c].url))
             => IF verify
                THEN /\ pc'[c] = "done"
                     /\ result'[c] = Result("error", NoneObj, "ValueError")
                     /\ tokreqs' = tokreqs
                     /\ sent' = sent
                ELSE /\ Len(tokreqs'[c]) = Len(tokreqs[c]) + 1
                     /\ trq.scope = scope
                     /\ trq.how = "authorize_request"
                     /\ Len(sent'[c]) = Len(sent[c]) + 1
                     /\ last.auth # NoneObj
                     /\ last.auth.scope = scope
                     /\ pc'[c] \in {"wait2", "wait3"}]_vars

\* with verification on, a request to https://k.v.n was answered by a
\* challenge naming https://k.v.n itself and the call failed before any token
C8_Witness ==
    \E c \in Calls :
        /\ verify
        /\ pc[c] = "done"
        /\ Len(sent[c]) = 1
        /\ sent[c][1].url = Url_kvn
        /\ resps[c] = <<Response(401, H_same)>>
        /\ result[c] = Result("error", NoneObj, "ValueError")
        /\ tokreqs[c] = << >>

\* with verification off the same challenge was accepted and the request
\* resent with a token for https://k.v.n/.default
C8_WitnessUnverified ==
    \E c \in Calls :
        /\ ~verify
        /\ Len(sent[c]) = 2
        /\ sent[c][1].url = Url_kvn
        /\ resps[c] = <<Response(401, H_same)>>
        /\ sent[c][2].auth # NoneObj
        /\ sent[c][2].auth.scope = AppendDefault(Res(Host_kvn))

\* the challenge whose tenant the token request made in this step by call c
\* is built from: the cached one on_request found for the request's URL, or
\* the one on_challenge has just parsed and cached
TokenChallenge(c) ==
    IF tokreqs'[c][Len(tokreqs'[c])].how = "_request_kv_token"
    THEN cache[CacheKey(req'[c].url)]
    ELSE cache'[CacheKey(req[c].url)]

\* C9: every token request, in on_challenge and in _request_kv_token with
\* either shape of credential, built from a challenge with a tenant leaves
\* the tenant out exactly when the tenant equals adfs ignoring case, and
\* carries the challenge's tenant otherwise.
C9_TenantOmittedIffAdfs ==
    [][\A c \in Calls :
         LET trq == tokreqs'[c][Len(tokreqs'[c])]
             tenant == TokenChallenge(c).tenant_id
         IN  (Len(tokreqs'[c]) = Len(tokreqs[c]) + 1 /\ tenant # NoneStr)
             => IF Lower(tenant) = Str_adfs
                THEN trq.tenant = NoneStr
                ELSE trq.tenant = tenant]_vars

\* a token was requested in on_challenge for a challenge whose tenant is
\* ADFS, and again by _request_kv_token for the next request, without tenant
C9_Witness ==
    \E c \in Calls :
        /\ Len(tokreqs[c]) >= 1
        /\ tokreqs[c][1].how = "_request_kv_token"
        /\ tokreqs[c][1].tenant = NoneStr
        /\ cache[CacheKey(sent[c][1].url)] = HttpChallenge(H_ADFS)

\* call c receives a 401 whose header does not parse as a challenge
MalformedChallenge(c) ==
    LET r == resps'[c][Len(resps'[c])]
    IN  /\ pc[c] \in {"wait1", "wait2", "wait3"}
        /\ Len(resps'[c]) = Len(resps[c]) + 1
        /\ r.status = 401
        /\ r.hdr # NoneObj
        /\ ParseFails(r.hdr)

C10_WitnessSchemeOnly ==
    \E c \in Calls :
        /\ pc[c] = "done"
        /\ resps[c] = <<Response(401, H_bare)>>
        /\ result[c] = Result("error", NoneObj, "IndexError")

\* C11: when the next policy raises on a send of call c (the first send, the
\* resend after the first challenge, or the resend after a consecutive claims
\* challenge), the call ends with that error, nothing more is sent and no
\* token is requested.
C11_TransportErrorPropagates ==
    [][\A c \in Calls :
         ( /\ InFlight(c)
           /\ Len(resps'[c]) = Len(resps[c]) + 1
           /\ resps'[c][Len(resps'[c])] = Raise )
         => /\ pc'[c] = "done"
            /\ result'[c] = Result("error", NoneObj, "TransportError")
            /\ sent' = sent
            /\ tokreqs' = tokreqs
            /\ policyVars' = policyVars]_vars

\* the next policy raised on the third send, after a Key Vault challenge and
\* a claims challenge, and the call ended with the error after three sends
C11_Witness ==
    \E c \in Calls :
        /\ pc[c] = "done"
        /\ Len(resps[c]) = 3
        /\ IsPlain401(resps[c][1])
        /\ IsClaims401(resps[c][2])
        /\ resps[c][3] = Raise
        /\ Len(sent[c]) = 3
        /\ result[c] = Result("error", NoneObj, "TransportError")

\* call c receives a response with status 401 from the next policy
Receives401(c) ==
    /\ InFlight(c)
    /\ Len(resps'[c]) = Len(resps[c]) + 1
    /\ resps'[c][Len(resps'[c])].status = 401

\* C12: whenever a send call receives a 401, with or without a cached
\* challenge and with or without a WWW-Authenticate header, the token held
\* before it is discarded at once: after the step the policy holds no token,
\* or one the challenge flow has requested in that step.
C12_TokenDiscardedOn401 ==
    [][\A c \in Calls :
         Receives401(c)
         => \/ token' = NoneObj
            \/ Len(tokreqs'[c]) = Len(tokreqs[c]) + 1]_vars

\* a request authorized from the cached challenge was answered by a 401
\* without a WWW-Authenticate header, and the policy holds no token
C12_Witness ==
    \E c \in Calls :
        /\ pc[c] = "done"
        /\ found[c] # NoneObj
        /\ Len(sent[c]) = 1
        /\ sent[c][1].auth # NoneObj
        /\ resps[c] = <<Response(401, NoneObj)>>
        /\ token = NoneObj

\* C13: _need_new_token is true exactly when no token is held, or the token
\* has a refresh time and that time is at or before now, or fewer than 300
\* seconds remain before expiry; with exactly 300 seconds left, a token
\* held and no refresh time passed, it is false.
C13_NeedNewToken ==
    need_read # << >>
    => need_read[1] = ( \/ token = NoneObj
                        \/ (token.refresh_on # NoTime /\ token.refresh_on <= now)
                        \/ token.expires_on - now < 300 )

\* read with a token held that has exactly 300 seconds left and a refresh
\* time still ahead: no new token is needed
C13_Witness ==
    /\ need_read = <<FALSE>>
    /\ token # NoneObj
    /\ token.expires_on - now = 300
    /\ token.refresh_on > now

\* call c starts in this step with a request whose authority has a cached
\* challenge
StartsAuthenticated(c) ==
    /\ ncalls' = ncalls + 1
    /\ req'[c] # NoneObj
    /\ req'[c].rid = ncalls'
    /\ pc'[c] = "wait1"
    /\ cache[CacheKey(req'[c].url)] # NoneObj

\* C14: a request to an authority with a cached challenge is sent only after
\* the refresh predicate was evaluated: when it is true exactly one token is
\* requested, for the cached challenge's scope, and that new token is
\* attached; when it is false no token is requested and the held token is
\* attached.  Either way the request leaves with an Authorization header.
C14_RefreshBeforeSend ==
    [][\A c \in Calls :
         LET cached == cache[CacheKey(req'[c].url)]
             due == \/ token = NoneObj
                    \/ (token.refresh_on # NoTime /\ token.refresh_on <= now')
                    \/ token.expires_on - now' < 300
         IN  StartsAuthenticated(c)
             => /\ Len(sent'[c]) = 1
                /\ sent'[c][1].auth # NoneObj
                /\ sent'[c][1].auth = token'
                /\ IF due
                   THEN /\ Len(tokreqs'[c]) = 1
                        /\ tokreqs'[c][1].scope = ScopeOf(cached)
                        /\ tokreqs'[c][1].how = "_request_kv_token"
                        /\ token'.scope = ScopeOf(cached)
                        /\ token'.expires_on = now' + cred.lifetime
                   ELSE /\ tokreqs'[c] = << >>
                        /\ token' = token]_vars

\* a request found a cached challenge and a token with more than 300 seconds
\* left: it went out with that token and no token was requested
C14_Witness ==
    \E c \in Calls :
        /\ pc[c] = "wait1"
        /\ found[c] # NoneObj
        /\ tokreqs[c] = << >>
        /\ Len(sent[c]) = 1
        /\ sent[c][1].auth # NoneObj
        /\ sent[c][1].auth.expires_on - now >= 300

\* a request found a cached challenge when the clock had advanced: a token
\* was requested and the request went out with the new one
C14_WitnessRenewed ==
    \E c \in Calls :
        /\ pc[c] = "wait1"
        /\ found[c] # NoneObj
        /\ now = TickSeconds
        /\ Len(tokreqs[c]) = 1
        /\ tokreqs[c][1].how = "_request_kv_token"
        /\ sent[c][1].auth.expires_on = TickSeconds + TokenLifetime

\* C15: when no challenge is cached for the authority and the request has a
\* body, the first request sent is a probe without body, with Content-Length
\* 0 and without Authorization; every request sent after it in the call,
\* which on_challenge sends once the challenge is parsed and cached, is the
\* caller's request with its body and an Authorization header.
C15_ProbeThenOriginal ==
    \A c \in Calls :
        ( /\ given[c] # NoneObj
          /\ found[c] = NoneObj
          /\ given[c].body # None
          /\ Len(sent[c]) >= 1 )
        => /\ sent[c][1] =
                 HttpRequest(given[c].rid, given[c].url, None, NoneObj, TRUE)
           /\ \A i \in 2..Len(sent[c]) :
                 /\ sent[c][i].rid = given[c].rid
                 /\ sent[c][i].url = given[c].url
                 /\ sent[c][i].body = given[c].body
                 /\ sent[c][i].cl0 = FALSE
                 /\ sent[c][i].auth # NoneObj
                 /\ cache[CacheKey(given[c].url)] # NoneObj

\* the second call of the policy, to an authority without cached challenge,
\* sent its probe and then its own request with the body and a token
C15_Witness ==
    \E c \in Calls :
        /\ given[c] # NoneObj
        /\ given[c].rid = 2
        /\ given[c].body = "body"
        /\ found[c] = NoneObj
        /\ Len(sent[c]) = 2
        /\ sent[c][1].body = None
        /\ sent[c][2].body = "body"
        /\ sent[c][2].rid = 2
        /\ sent[c][2].auth # NoneObj

\* the send call before this one went through the challenge protocol: its
\* request was answered by a 401 challenge and resent with a token
ProtocolDone(d) ==
    /\ pc[d] = "done"
    /\ given[d] # NoneObj
    /\ given[d].rid = ncalls
    /\ Len(sent[d]) >= 2

\* the token held has at least 300 seconds left at time t and no refresh
\* time that has passed
Fresh(tok, t) ==
    /\ tok # NoneObj
    /\ tok.refresh_on = NoTime \/ tok.refresh_on > t
    /\ tok.expires_on - t >= 300

\* C16: after a send call that went through the challenge protocol for an
\* authority, the next send call to that authority (over https), made while
\* the token is fresh, sends no probe: its first request is the caller's
\* with its body and the held token, no token is requested; and when the
\* answer is not a 401 the call ends with that one request.
C16_NoProbeOnceCached ==
    [][\A c, d \in Calls :
         /\ ( /\ ProtocolDone(d)
              /\ ncalls' = ncalls + 1
              /\ given'[c] # NoneObj
              /\ given'[c].rid = ncalls'
              /\ Lower(given'[c].url.netloc) = Lower(given[d].url.netloc)
              /\ StartsWith(Lower(UrlString(given'[c].url)), Str_https)
              /\ Fresh(token, now') )
            => /\ sent'[c] = <<[given'[c] EXCEPT !.auth = token]>>
               /\ tokreqs'[c] = << >>
               /\ token' = token
               /\ pc'[c] = "wait1"
         /\ ( /\ pc[c] = "wait1"
              /\ found[c] # NoneObj
              /\ Len(resps'[c]) = 1
              /\ resps'[c][1] # Raise
              /\ resps'[c][1].status # 401 )
            => /\ pc'[c] = "done"
               /\ result'[c] = Result("response", resps'[c][1], None)
               /\ sent' = sent
               /\ Len(sent[c]) = 1
               /\ tokreqs' = tokreqs]_vars

\* the second call, to the authority the first call was challenged for, went
\* out once with its body and the held token and was answered 200
C16_Witness ==
    \E c \in Calls :
        /\ pc[c] = "done"
        /\ given[c] # NoneObj
        /\ given[c].rid = 2
        /\ given[c].body = "body"
        /\ found[c] # NoneObj
        /\ tokreqs[c] = << >>
        /\ Len(sent[c]) = 1
        /\ sent[c][1].body = "body"
        /\ sent[c][1].auth = token
        /\ token # NoneObj
        /\ resps[c] = <<Response(200, NoneObj)>>

\* C17: when two send calls on one policy are in flight at once, every
\* request a call resends is that call's own request with its own body, and
\* carries a token requested for that call's own challenge.
C17_OverlappingCallsApart ==
    (\A c \in Calls : InFlight(c))
    => \A c \in Calls : \A i \in 2..Len(sent[c]) :
          /\ sent[c][i].rid = given[c].rid
          /\ sent[c][i].body = given[c].body
          /\ \E j \in 1..Len(tokreqs[c]) :
                /\ sent[c][i].auth.scope = tokreqs[c][j].scope
                /\ sent[c][i].auth.claims = tokreqs[c][j].claims

\* two calls are in flight and one of them has resent after its challenge
C17_Witness ==
    /\ \A c \in Calls : InFlight(c)
    /\ \E c \in Calls : Len(sent[c]) >= 2

\* C18: whatever the next policy answers, a send call hands it at most three
\* requests and requests a token for a challenge at most twice, the call is
\* over once the third request is answered, and every call that is answered
\* comes to its end.
C18_AtMostThreeSends ==
    /\ [](\A c \in Calls :
            /\ Len(sent[c]) <= 3
            /\ Reauths(c) <= 2
            /\ Len(resps[c]) = 3 => pc[c] = "done")
    /\ \A c \in Calls : InFlight(c) ~> pc[c] = "done"

\* a call that was answered 401 three times is over, after three requests
\* and two tokens requested for challenges
C18_Witness ==
    \E c \in Calls :
        /\ pc[c] = "done"
        /\ Len(sent[c]) = 3
        /\ Reauths(c) = 2
        /\ Len(resps[c]) = 3
        /\ \A i \in 1..3 : resps[c][i].status = 401

\* C19: the status of a poller only moves from NotStarted to Running to a
\* terminal status, and a poller that is Succeeded, Failed or Canceled keeps
\* that status under every later poll, rehydration, wait, result or status
\* call.
C19_StatusMonotonic ==
    [][\A p \in Pollers :
         poller[p] # NoneObj
         => /\ poller'[p] # NoneObj
            /\ Rank(poller'[p].status) >= Rank(poller[p].status)
            /\ finished(poller[p].status)
               => poller'[p].status = poller[p].status]_lroVars

\* a poller that was polled until the operation had failed was asked for
\* its result, and a token of it was used to make another poller
C19_Witness ==
    \E p, q \in Pollers :
        /\ p # q
        /\ poller[p] # NoneObj
        /\ poller[q] # NoneObj
        /\ poller[p].status = "Failed"
        /\ poller[p].requests >= 1
        /\ returned[p] = "error"
        /\ poller[q].initial = "Failed"

C20_WitnessLateToken ==
    \E p, q \in Pollers :
        /\ p # q
        /\ poller[p] # NoneObj
        /\ poller[q] # NoneObj
        /\ poller[p].initial = "Running"
        /\ poller[p].status = "Succeeded"
        /\ poller[q].initial = "Succeeded"
        /\ poller[q].status = "Succeeded"
        /\ poller[q].requests = 0
        /\ returned[q] = "waited"

PagesInStep ==
    /\ Len(got) <= Len(listing)
    /\ Exhausted(pager) => Len(got) = Len(listing)

IsDirectoryPrefix(built) == built.type = "DirectoryPrefix"

IsDeletedPath(built) == built.type = "DeletedPathProperties"

C22_WitnessPaths ==
    /\ pager # NoneObj
    /\ pager.kind = PathsPaged
    /\ Exhausted(pager)
    /\ Len(got) = 2
    /\ Len(Concat(got)) = 4

\* the marker the service gave with the page fetched last
LastMark == MarkAfter(PageAt(fetched[Len(fetched)]))

\* C23: once a page has been fetched whose next marker is absent, null or
\* the empty string, the iterator is exhausted, and an exhausted iterator
\* stays so: a request for a page ends with nothing, sends no request to the
\* service and changes no field of the iterator.
C23_ExhaustedForGood ==
    [][/\ ( /\ pager' # NoneObj
            /\ Len(got') > Len(got)
            /\ LastMark' \in {None, ""} )
          => Exhausted(pager')
       /\ ( /\ pager # NoneObj
            /\ Exhausted(pager) )
          => /\ pager' = pager
             /\ fetched' = fetched
             /\ got' = got
             /\ listing' = listing
             /\ outcome' = "stop"]_pageVars

\* the service gave the empty string as the marker after its second page;
\* the page after that was asked for and the iteration ended without a
\* third request
C23_Witness ==
    /\ pager # NoneObj
    /\ Len(listing) = 2
    /\ last_mark = ""
    /\ Len(got) = 2
    /\ Len(fetched) = 2
    /\ pager.continuation_token = None
    /\ outcome = "stop"

\* C24: a page request that fails ends in an error at that request, and an
\* error arises only from a request the caller asked for; the continuation
\* token, the current page and the other fields of the iterator are those
\* the last page fetched left, and the pages already returned are as they
\* were.
C24_FetchFailureKeepsCursor ==
    [][/\ ( /\ Len(fetched') > Len(fetched)
            /\ Len(got') = Len(got) )
          => /\ outcome' = "error"
             /\ pager' = pager
             /\ got' = got
             /\ listing' = listing
       /\ ( /\ outcome' = "error"
            /\ outcome # "error" )
          => Len(fetched') = Len(fetched) + 1]_pageVars

\* the first page was fetched with a marker for the second; the request for
\* the second failed: the iterator still holds the first page and its marker
C24_Witness ==
    /\ pager # NoneObj
    /\ outcome = "error"
    /\ Len(got) = 1
    /\ Len(got[1]) = 2
    /\ fetched = <<None, MarkerOf(1)>>
    /\ pager.continuation_token = MarkerOf(1)
    /\ pager.current_page = <<got[1]>>

\* after the failure the second page was asked for again and fetched
C24_WitnessRetried ==
    /\ pager # NoneObj
    /\ outcome = "page"
    /\ Len(got) = 2
    /\ fetched = <<None, MarkerOf(1), MarkerOf(1)>>
    /\ Exhausted(pager)

\* C25: when on_challenge handles a 401 whose challenge has claims and a
\* scope or resource of its own and requests a token for it, the token is
\* requested for the scope and the tenant of that challenge, not for those
\* of the challenge cached before.
C25_OwnScopeAndTenant ==
    [][\A c \in Calls :
         LET r == resps'[c][Len(resps'[c])]
             own == HttpChallenge(r.hdr)
             trq == tokreqs'[c][Len(tokreqs'[c])]
         IN  ( /\ ChallengeParsed(c)
               /\ r.hdr.claims # None
               /\ (own.scope # EmptyStr \/ own.resource # EmptyStr)
               /\ Len(tokreqs'[c]) = Len(tokreqs[c]) + 1 )
             => /\ trq.scope = ScopeOf(own)
                /\ trq.tenant = ChallengeTenant(own.tenant_id)
                /\ trq.claims = own.claims]_vars

\* with nothing cached, a first 401 with claims and a resource of its own
\* got its token for that resource and its tenant
C25_Witness ==
    \E c \in Calls :
        /\ found[c] = NoneObj
        /\ Len(resps[c]) >= 1
        /\ resps[c][1] = Response(401, H_caeres)
        /\ Len(tokreqs[c]) = 1
        /\ tokreqs[c][1] =
              TokenRequest(AppendDefault(Res(Host_n)), Str_c, "c2",
                           "authorize_request")

\* C26: in every sequence of send calls on one policy, each request sent
\* again after a challenge is the request that was passed to that send call:
\* the same request, with its URL and its body.
C26_ResendIsOwnRequest ==
    \A c \in Calls :
        given[c] # NoneObj
        => \A i \in 2..Len(sent[c]) :
              /\ sent[c][i].rid = given[c].rid
              /\ sent[c][i].url = given[c].url
              /\ sent[c][i].body = given[c].body

\* the second send call on the policy had a body, was sent as a probe and,
\* after the challenge, again with its own body
C26_Witness ==
    \E c \in Calls :
        /\ given[c] # NoneObj
        /\ given[c].rid = 2
        /\ given[c].body # None
        /\ Len(sent[c]) >= 2
        /\ sent[c][1].body = None
        /\ sent[c][2].rid = 2
        /\ sent[c][2].body = given[c].body

\* C27: with verification on, every challenge in the cache has a scope whose
\* authority is a dot-boundary suffix of the authority it is cached for,
\* every token requested was requested for such a scope of the request's
\* authority, and every token attached to a request is for such a scope of
\* that request's authority.
C27_OnlyVerifiedScopes ==
    verify
    => /\ \A k \in CacheKeys :
             cache[k] # NoneObj
             => DotSuffix(ScopeOf(cache[k]), [netloc |-> k])
       /\ \A c \in Calls :
             /\ \A i \in 1..Len(sent[c]) :
                   sent[c][i].auth # NoneObj
                   => DotSuffix(sent[c][i].auth.scope, sent[c][i].url)
             /\ \A i \in 1..Len(tokreqs[c]) :
                   \E j \in 1..Len(sent[c]) :
                       DotSuffix(tokreqs[c][i].scope, sent[c][j].url)

\* with verification on, a challenge that passes it was cached, and a later
\* call to that authority was sent with a token for its scope
C27_Witness ==
    \E c \in Calls :
        /\ verify
        /\ given[c] # NoneObj
        /\ given[c].rid = 2
        /\ found[c] = HttpChallenge(H_kv)
        /\ Len(sent[c]) >= 1
        /\ sent[c][1].url = Url_kvn
        /\ sent[c][1].auth # NoneObj
        /\ sent[c][1].auth.scope = AppendDefault(Res(Host_vn))

\* C28: a request that on_request authorizes from the challenge cached for
\* its authority leaves with a token that was acquired for the scope of
\* that challenge, also when the token the policy holds is still fresh.
C28_TokenForCachedScope ==
    [][\A c \in Calls :
         StartsAuthenticated(c)
         => /\ sent'[c][1].auth # NoneObj
            /\ sent'[c][1].auth.scope = ScopeOf(cache[CacheKey(req'[c].url)])]_vars

\* a second call to the authority of the first left with the token the
\* first had acquired for the challenge cached for that authority
C28_Witness ==
    \E c \in Calls :
        /\ given[c] # NoneObj
        /\ given[c].rid = 2
        /\ given[c].url = Url_kvn
        /\ found[c] = HttpChallenge(H_kv)
        /\ tokreqs[c] = << >>
        /\ Len(sent[c]) >= 1
        /\ sent[c][1].auth # NoneObj
        /\ sent[c][1].auth.scope = ScopeOf(found[c])

\* C29: a 401 without a WWW-Authenticate header, wherever in a send call it
\* arrives, ends the call with that response returned as it is: the cache
\* is not written, no token is requested and nothing is sent again.
C29_HeaderlessReturned ==
    [][\A c \in Calls :
         LET r == resps'[c][Len(resps'[c])]
         IN  ( /\ Receives401(c)
               /\ r.hdr = NoneObj )
             => /\ pc'[c] = "done"
                /\ result'[c] = Result("response", r, None)
                /\ cache' = cache
                /\ tokreqs' = tokreqs
                /\ sent' = sent]_vars

\* the resend after a Key Vault challenge was answered by a 401 without the
\* header, which was returned
C29_Witness ==
    \E c \in Calls :
        /\ pc[c] = "done"
        /\ resps[c] = <<Response(401, H_kv), Response(401, NoneObj)>>
        /\ result[c] = Result("response", Response(401, NoneObj), None)
        /\ Len(sent[c]) = 2
        /\ Len(tokreqs[c]) = 1

\* C30: when send has returned a response whose status is not 401 for a
\* request the caller gave with a body, the request sent last carried that
\* body: the answer to the bodiless probe is not what send returns.
C30_ProbeAnswerNotReturned ==
    \A c \in Calls :
        ( /\ pc[c] = "done"
          /\ given[c] # NoneObj
          /\ given[c].body # None
          /\ result[c].kind = "response"
          /\ result[c].resp.status # 401 )
        => /\ Len(sent[c]) >= 1
           /\ sent[c][Len(sent[c])].body = given[c].body

\* a request with a body went out as a probe, was challenged, went out
\* again with its body and a token, and the answer to that was returned
C30_Witness ==
    \E c \in Calls :
        /\ pc[c] = "done"
        /\ given[c] # NoneObj
        /\ given[c].body = "body"
        /\ Len(sent[c]) = 2
        /\ sent[c][1].body = None
        /\ sent[c][2].body = "body"
        /\ sent[c][2].rid = given[c].rid
        /\ result[c] = Result("response", Response(200, NoneObj), None)

====
